---- MODULE Spec2Model ----
(***************************************************************************)
(* Model of app/services/benchmark_service.py: the sandbox executor        *)
(* (_docker_run, _classify_stderr), the repeated sampler and aggregator    *)
(* (_repeated, _percentile, statistics.median) and the benchmark run       *)
(* (BenchmarkService.run_benchmark).                                       *)
(*                                                                         *)
(* Durations are integer clock ticks.  Statistics are exact rationals,     *)
(* kept as integers scaled by 100 (a median of 20.5 ticks is 2050); the    *)
(* adjustment factor is the pair <<numerator, denominator>>.  Python's     *)
(* None is the empty tuple and a defined value x is <<x>>.                 *)
(***************************************************************************)
EXTENDS Bags, FiniteSets, Integers, Sequences, TLC

VARIABLES pc, images, ensured, workdir, factor_cap, warm, i, samples,
          statuses, py, cp, result, exc, calls, log, inv, res, agg,
          policy_pct

vars == <<pc, images, ensured, workdir, factor_cap, warm, i, samples,
          statuses, py, cp, result, exc, calls, log, inv, res, agg,
          policy_pct>>

-----------------------------------------------------------------------------
(* Bounds of the explored input space *)

\* elapsed times of the benchmark run are drawn from 0..MaxElapsed ticks
MaxElapsed == 1
\* stderr texts of the executor are sequences of at most MaxStderrLen chunks
MaxStderrLen == 2
\* sample values of the aggregator are 0 or 20..20+MaxJitter ticks
MaxJitter == 2

-----------------------------------------------------------------------------
(* Program constants *)

N_REPEATS == 5
\* the literal 0.05 of the stability test, in percent
STABLE_PCT == 5
\* default of LanguagePolicy.iqr_stable_pct, in percent
DEFAULT_IQR_STABLE_PCT == 5

PY_IMAGE == "adaptivejudge-python:latest"
CPP_IMAGE == "adaptivejudge-cpp:latest"

None == <<>>
Some(x) == <<x>>
Val(o) == o[1]

-----------------------------------------------------------------------------
(* Sandbox executor *)

\* stderr is a byte string, modelled as a sequence of chunks; the chunk
\* "0xFF" is a byte sequence that is not valid UTF-8
StderrChunks == {"maximum recursion depth exceeded", "RecursionError",
                 "Stack Overflow", "Segmentation fault", "0xFF"}

\* bytes.decode(): strict UTF-8, raises UnicodeDecodeError on invalid input
Decodable(bytes) == \A n \in 1..Len(bytes) : bytes[n] # "0xFF"

\* str.lower() on one chunk
LowerChunk(c) ==
    CASE c = "RecursionError" -> "recursionerror"
      [] c = "Stack Overflow" -> "stack overflow"
      [] c = "Segmentation fault" -> "segmentation fault"
      [] OTHER -> c

lower(text) == [n \in 1..Len(text) |-> LowerChunk(text[n])]

\* the substring test  needle in text
In(needle, text) == \E n \in 1..Len(text) : text[n] = needle

classify_stderr_nolower(stderr) ==
    LET s == stderr
    IN  IF In("maximum recursion depth exceeded", s) \/ In("recursionerror", s)
        THEN "stack_overflow"
        ELSE IF In("stack overflow", s) THEN "stack_overflow" ELSE "rte"

classify_stderr(stderr) ==
    LET s == lower(stderr)
    IN  IF In("maximum recursion depth exceeded", s) \/ In("recursionerror", s)
        THEN "stack_overflow"
        ELSE IF In("stack overflow", s) THEN "stack_overflow" ELSE "rte"

ExecutionResult(ok, kind, elapsed, stderr) ==
    [exc |-> "none", ok |-> ok, kind |-> kind, elapsed |-> elapsed,
     stderr |-> stderr]

\* _docker_run leaves by an exception instead of returning an outcome
Raised(e) == [exc |-> e]

\* What the container runtime does with one command: whether
\* subprocess.run hit the timeout, and otherwise the exit status, the
\* captured stderr bytes and the measured wall-clock time.
Behaviour(t, rc, err, e) ==
    [timedOut |-> t, returncode |-> rc, stderr |-> err, elapsed |-> e]

docker_run_elapsed_on_failure(b) ==
    IF b.timedOut
    THEN ExecutionResult(FALSE, "tle", None, <<>>)
    ELSE IF ~Decodable(b.stderr)
    THEN Raised("UnicodeDecodeError")
    ELSE IF b.returncode = 0
    THEN ExecutionResult(TRUE, "success", Some(b.elapsed), b.stderr)
    ELSE LET kind0 == IF b.returncode # 124 THEN "rte" ELSE "tle"
             kind  == IF kind0 = "rte" THEN classify_stderr(b.stderr) ELSE kind0
         IN  ExecutionResult(FALSE, kind, Some(b.elapsed), b.stderr)

docker_run(b) ==
    IF b.timedOut
    THEN ExecutionResult(FALSE, "tle", None, <<>>)
    ELSE IF ~Decodable(b.stderr)
    THEN Raised("UnicodeDecodeError")
    ELSE IF b.returncode = 0
    THEN ExecutionResult(TRUE, "success", Some(b.elapsed), b.stderr)
    ELSE LET kind0 == IF b.returncode # 124 THEN "rte" ELSE "tle"
             kind  == IF kind0 = "rte" THEN classify_stderr(b.stderr) ELSE kind0
         IN  ExecutionResult(FALSE, kind, None, b.stderr)

-----------------------------------------------------------------------------
(* Statistics *)

RECURSIVE SortedInsert(_, _)
SortedInsert(x, s) ==
    IF s = <<>> THEN <<x>>
    ELSE IF x <= Head(s) THEN <<x>> \o s
    ELSE <<Head(s)>> \o SortedInsert(x, Tail(s))

RECURSIVE sorted(_)
sorted(s) == IF s = <<>> THEN <<>> ELSE SortedInsert(Head(s), sorted(Tail(s)))

Min(a, b) == IF a <= b THEN a ELSE b

NaN == "nan"

\* statistics.median, scaled by 100
median(values) ==
    LET vals == sorted(values)
        n    == Len(vals)
    IN  IF n % 2 = 1
        THEN 100 * vals[(n + 1) \div 2]
        ELSE 50 * (vals[n \div 2] + vals[n \div 2 + 1])

\* _percentile(values, p), scaled by 100; k100 is 100 * k
percentile(values, p) ==
    IF values = <<>> THEN NaN
    ELSE LET vals == sorted(values)
             n    == Len(vals)
             k100 == (n - 1) * p
             f    == k100 \div 100
             c    == Min(f + 1, n - 1)
         IN  IF n = 1 THEN 100 * vals[1]
             ELSE IF f = c THEN 100 * vals[f + 1]
             ELSE vals[f + 1] * (100 * c - k100) + vals[c + 1] * (k100 - 100 * f)

\* the stability test  (p75 - p25) <= 0.05 * median
StableStrict(iqr, med) == 100 * iqr < STABLE_PCT * med

Stable(iqr, med) == 100 * iqr <= STABLE_PCT * med

\* the aggregation at the end of _repeated
Aggregate(smpls, stats) ==
    IF smpls # <<>>
    THEN LET med == median(smpls)
             p10 == percentile(smpls, 10)
             p90 == percentile(smpls, 90)
             p25 == percentile(smpls, 25)
             p75 == percentile(smpls, 75)
         IN  [runs |-> smpls, counts |-> stats, median |-> Some(med),
              p10 |-> Some(p10), p90 |-> Some(p90), iqr |-> Some(p75 - p25),
              status |-> IF Stable(p75 - p25, med) THEN "stable" ELSE "unstable"]
    ELSE [runs |-> smpls, counts |-> stats, median |-> None, p10 |-> None,
          p90 |-> None, iqr |-> None, status |-> "no_success"]

-----------------------------------------------------------------------------
(* Factor calibration *)

NOTE_CENSORED == "Python sem execucoes bem-sucedidas (dados censurados)."
NOTE_INCOMPLETE == "Bench incompleto: nao foi possivel calcular o fator."
NoteCap(cap) == IF Val(cap) = <<12, 1>> THEN "Fator truncado: 12.0x."
                ELSE "Fator truncado."

\* the factor_cap argument: absent, or the default 12.0
FactorCaps == {None, Some(<<12, 1>>)}

CalibrateCapInElse(p, c, cap) ==
    IF p.median # None /\ c.median # None
    THEN [factor |-> IF Val(c.median) > 0
                     THEN Some(<<Val(p.median), Val(c.median)>>) ELSE None,
          notes |-> <<>>]
    ELSE IF p.median = None /\ c.median # None
    THEN IF cap # None
         THEN [factor |-> cap, notes |-> <<NOTE_CENSORED, NoteCap(cap)>>]
         ELSE [factor |-> None, notes |-> <<NOTE_CENSORED>>]
    ELSE [factor |-> cap, notes |-> <<NOTE_INCOMPLETE>>]

CalibrateNoCap(p, c, cap) ==
    IF p.median # None /\ c.median # None
    THEN [factor |-> IF Val(c.median) > 0
                     THEN Some(<<Val(p.median), Val(c.median)>>) ELSE None,
          notes |-> <<>>]
    ELSE IF p.median = None /\ c.median # None
    THEN [factor |-> None, notes |-> <<NOTE_CENSORED>>]
    ELSE [factor |-> None, notes |-> <<NOTE_INCOMPLETE>>]

\* lines 187-197 of run_benchmark
Calibrate(p, c, cap) ==
    IF p.median # None /\ c.median # None
    THEN [factor |-> IF Val(c.median) > 0
                     THEN Some(<<Val(p.median), Val(c.median)>>) ELSE None,
          notes |-> <<>>]
    ELSE IF p.median = None /\ c.median # None
    THEN IF cap # None
         THEN [factor |-> cap, notes |-> <<NOTE_CENSORED, NoteCap(cap)>>]
         ELSE [factor |-> None, notes |-> <<NOTE_CENSORED>>]
    ELSE [factor |-> None, notes |-> <<NOTE_INCOMPLETE>>]

Record(p, c, cal) ==
    [problem_id |-> "sum_1_to_n", repeats |-> N_REPEATS, python |-> p,
     cpp |-> c, base_time_cpp |-> c.median,
     adjustment_factor_python |-> cal.factor, notes |-> cal.notes,
     version |-> 1]

-----------------------------------------------------------------------------
(* The benchmark run: BenchmarkService.run_benchmark *)

ExitCodes == {0, 1, 124, 139}

StderrTexts == UNION {[1..n -> StderrChunks] : n \in 0..MaxStderrLen}

\* every behaviour of the container runtime within the bounds; elapsed is a
\* difference of two time.perf_counter() readings, so it is never negative
Behaviours ==
    {Behaviour(t, rc, err, e) :
        t \in BOOLEAN, rc \in ExitCodes, err \in StderrTexts, e \in 0..MaxElapsed}

\* The behaviours the run is explored under: one for each way _docker_run
\* can end (timeout, success with each elapsed time, each failure kind by
\* exit status and stderr, undecodable stderr).
RunBehaviours ==
    {Behaviour(TRUE, 0, <<>>, 0)}
    \cup {Behaviour(FALSE, 0, <<>>, e) : e \in 0..MaxElapsed}
    \cup {Behaviour(FALSE, rc, err, 0) :
            rc \in {1, 124}, err \in {<<>>, <<"RecursionError">>}}
    \cup {Behaviour(FALSE, 0, <<"0xFF">>, 0)}

StepsCppFirst ==
    <<"ensure_py", "ensure_cpp", "prepare", "compile", "repeat_cpp",
      "repeat_py", "finish">>

\* the statements of run_benchmark, in program order
Steps ==
    <<"ensure_py", "ensure_cpp", "prepare", "compile", "repeat_py",
      "repeat_cpp", "finish">>

StepAfter(p) == Steps[(CHOOSE n \in 1..Len(Steps) : Steps[n] = p) + 1]

FinallyRmtree(w) == "removed"

\* the finally block of run_benchmark: pass
Finally(w) == w

AppendStatusOnlyOk(stats, r) ==
    IF r.ok THEN stats (+) SetToBag({r.kind}) ELSE stats

\* statuses.append(r.kind); statuses is only read through count()
AppendStatus(stats, r) == stats (+) SetToBag({r.kind})

\* if r.ok and r.elapsed is not None: samples.append(r.elapsed)
AppendSample(smpls, r) ==
    IF r.ok /\ r.elapsed # None THEN Append(smpls, Val(r.elapsed)) ELSE smpls

Outcome(r) == [kind |-> r.kind, elapsed |-> r.elapsed]

NoLog == [py |-> EmptyBag, cpp |-> EmptyBag]

\* An exception propagating out of the try block of run_benchmark: the
\* finally block runs and the frames of _repeated and run_benchmark, with
\* their locals, are gone.
Raise(e) ==
    /\ pc' = "raised"
    /\ exc' = e
    /\ workdir' = Finally(workdir)
    /\ warm' = FALSE
    /\ i' = 0
    /\ samples' = <<>>
    /\ statuses' = EmptyBag
    /\ py' = None
    /\ cp' = None
    /\ log' = NoLog

\* _ensure_image(tag, dockerfile_path)
EnsureImage(tag, here) ==
    /\ pc = here
    /\ \/ /\ tag \in images
          /\ UNCHANGED images
          /\ ensured' = ensured \cup {tag}
          /\ pc' = StepAfter(here)
          /\ UNCHANGED exc
       \/ /\ tag \notin images
          /\ images' = images \cup {tag}
          /\ ensured' = ensured \cup {tag}
          /\ pc' = StepAfter(here)
          /\ UNCHANGED exc
       \/ /\ tag \notin images
          /\ UNCHANGED <<images, ensured>>
          /\ pc' = "raised"
          /\ exc' = "RuntimeError: build"
    /\ UNCHANGED <<workdir, factor_cap, warm, i, samples, statuses, py, cp,
                   result, calls, log, inv, res, agg, policy_pct>>

\* _prepare_workspace
PrepareWorkspace ==
    /\ pc = "prepare"
    /\ workdir' = "present"
    /\ calls' = [calls EXCEPT !.prepare = @ + 1]
    /\ pc' = StepAfter("prepare")
    /\ UNCHANGED <<images, ensured, factor_cap, warm, i, samples, statuses,
                   py, cp, result, exc, log, inv, res, agg, policy_pct>>

\* _compile_cpp
CompileCpp ==
    /\ pc = "compile"
    /\ calls' = [calls EXCEPT !.compile = @ + 1]
    /\ \E b \in RunBehaviours :
          LET r == docker_run(b)
          IN  IF r.exc # "none" THEN Raise(r.exc)
              ELSE IF ~r.ok THEN Raise("RuntimeError: compile")
              ELSE /\ pc' = StepAfter("compile")
                   /\ UNCHANGED <<exc, workdir, warm, i, samples, statuses,
                                  py, cp, log>>
    /\ UNCHANGED <<images, ensured, factor_cap, result, inv, res, agg,
                   policy_pct>>

\* _repeated: the warm-up invocation, whose result is dropped
WarmUp(lang, here) ==
    /\ pc = here
    /\ ~warm
    /\ calls' = [calls EXCEPT ![lang] = @ + 1]
    /\ \E b \in RunBehaviours :
          LET r == docker_run(b)
          IN  IF r.exc # "none" THEN Raise(r.exc)
              ELSE /\ warm' = TRUE
                   /\ samples' = <<>>
                   /\ statuses' = EmptyBag
                   /\ UNCHANGED <<pc, exc, workdir, i, py, cp, log>>
    /\ UNCHANGED <<images, ensured, factor_cap, result, inv, res, agg,
                   policy_pct>>

\* _repeated: one pass of the measuring loop
Measure(lang, here) ==
    /\ pc = here
    /\ warm
    /\ i < N_REPEATS
    /\ calls' = [calls EXCEPT ![lang] = @ + 1]
    /\ \E b \in RunBehaviours :
          LET r == docker_run(b)
          IN  IF r.exc # "none" THEN Raise(r.exc)
              ELSE /\ statuses' = AppendStatus(statuses, r)
                   /\ samples' = AppendSample(samples, r)
                   /\ i' = i + 1
                   /\ log' = [log EXCEPT ![lang] = @ (+) SetToBag({Outcome(r)})]
                   /\ UNCHANGED <<pc, exc, workdir, warm, py, cp>>
    /\ UNCHANGED <<images, ensured, factor_cap, result, inv, res, agg,
                   policy_pct>>

\* _repeated: the aggregation and the return to run_benchmark
Return(lang, here) ==
    /\ pc = here
    /\ warm
    /\ i = N_REPEATS
    /\ py' = IF lang = "py" THEN Aggregate(samples, statuses) ELSE py
    /\ cp' = IF lang = "cpp" THEN Aggregate(samples, statuses) ELSE cp
    /\ warm' = FALSE
    /\ i' = 0
    /\ samples' = <<>>
    /\ statuses' = EmptyBag
    /\ pc' = StepAfter(here)
    /\ UNCHANGED <<images, ensured, workdir, factor_cap, result, exc, calls,
                   log, inv, res, agg, policy_pct>>

\* the factor, the record, the JSON file and the return
Finish ==
    /\ pc = "finish"
    /\ LET rec == Record(py, cp, Calibrate(py, cp, factor_cap))
       IN  \/ /\ result' = Some(rec)
              /\ pc' = "done"
              /\ workdir' = Finally(workdir)
              /\ py' = None
              /\ cp' = None
              /\ UNCHANGED <<exc, warm, i, samples, statuses, log>>
           \/ /\ Raise("OSError")
              /\ UNCHANGED result
    /\ UNCHANGED <<images, ensured, factor_cap, calls, inv, res, agg,
                   policy_pct>>

Init ==
    /\ pc = "ensure_py"
    /\ images \in SUBSET {PY_IMAGE, CPP_IMAGE}
    /\ ensured = {}
    /\ workdir = "absent"
    /\ factor_cap \in FactorCaps
    /\ warm = FALSE
    /\ i = 0
    /\ samples = <<>>
    /\ statuses = EmptyBag
    /\ py = None
    /\ cp = None
    /\ result = None
    /\ exc = "none"
    /\ calls = [prepare |-> 0, compile |-> 0, py |-> 0, cpp |-> 0]
    /\ log = NoLog
    /\ inv = None
    /\ res = None
    /\ agg = None
    /\ policy_pct = DEFAULT_IQR_STABLE_PCT

Next ==
    \/ EnsureImage(PY_IMAGE, "ensure_py")
    \/ EnsureImage(CPP_IMAGE, "ensure_cpp")
    \/ PrepareWorkspace
    \/ CompileCpp
    \/ WarmUp("py", "repeat_py")
    \/ Measure("py", "repeat_py")
    \/ Return("py", "repeat_py")
    \/ WarmUp("cpp", "repeat_cpp")
    \/ Measure("cpp", "repeat_cpp")
    \/ Return("cpp", "repeat_cpp")
    \/ Finish

Spec == Init /\ [][Next]_vars

-----------------------------------------------------------------------------
(* The sandbox executor alone: one call of _docker_run on each behaviour *)

Idle ==
    /\ images = {}
    /\ ensured = {}
    /\ workdir = "absent"
    /\ factor_cap = None
    /\ warm = FALSE
    /\ i = 0
    /\ py = None
    /\ cp = None
    /\ result = None
    /\ exc = "none"
    /\ calls = [prepare |-> 0, compile |-> 0, py |-> 0, cpp |-> 0]
    /\ log = NoLog

InitExec ==
    /\ Idle
    /\ pc = "exec"
    /\ inv \in Behaviours
    /\ res = None
    /\ samples = <<>>
    /\ statuses = EmptyBag
    /\ agg = None
    /\ policy_pct = DEFAULT_IQR_STABLE_PCT

Execute ==
    /\ pc = "exec"
    /\ res' = docker_run(inv)
    /\ pc' = "exec_done"
    /\ UNCHANGED <<images, ensured, workdir, factor_cap, warm, i, samples,
                   statuses, py, cp, result, exc, calls, log, inv, agg,
                   policy_pct>>

NextExec == Execute

SpecExec == InitExec /\ [][NextExec]_vars

-----------------------------------------------------------------------------
(* The aggregator alone: the aggregation of _repeated on each sample set *)

AggTicks == {0} \cup (20..(20 + MaxJitter))

SampleLists == UNION {[1..n -> AggTicks] : n \in 0..N_REPEATS}

\* the bag with a copies of "tle", b of "rte", c of "stack_overflow" and
\* n of "success"
Histogram(n, a, b, c) ==
    LET f == [k \in {"success", "tle", "rte", "stack_overflow"} |->
                 CASE k = "success" -> n [] k = "tle" -> a [] k = "rte" -> b
                   [] OTHER -> c]
    IN  [k \in {k \in DOMAIN f : f[k] > 0} |-> f[k]]

\* the threshold a language_policy row may carry, in percent
PolicyPcts == {DEFAULT_IQR_STABLE_PCT, 10}

InitAgg ==
    /\ Idle
    /\ pc = "agg"
    /\ inv = None
    /\ res = None
    /\ agg = None
    /\ samples \in SampleLists
    /\ \E a \in 0..N_REPEATS, b \in 0..N_REPEATS, c \in 0..N_REPEATS :
          /\ Len(samples) + a + b + c = N_REPEATS
          /\ statuses = Histogram(Len(samples), a, b, c)
    /\ policy_pct \in PolicyPcts

AggregateSamples ==
    /\ pc = "agg"
    /\ agg' = Aggregate(samples, statuses)
    /\ pc' = "agg_done"
    /\ UNCHANGED <<images, ensured, workdir, factor_cap, warm, i, samples,
                   statuses, py, cp, result, exc, calls, log, inv, res,
                   policy_pct>>

NextAgg == AggregateSamples

SpecAgg == InitAgg /\ [][NextAgg]_vars

-----------------------------------------------------------------------------
(* Properties *)

Contains(seq, x) == \E n \in 1..Len(seq) : seq[n] = x

\* the recursion-limit and stack-exhaustion signatures, matched without
\* regard to case
Signatures ==
    {"maximum recursion depth exceeded", "recursionerror", "stack overflow"}

HasSignature(text) == \E n \in 1..Len(text) : LowerChunk(text[n]) \in Signatures

\* C1: every outcome _docker_run returns, for any exit status, stderr text
\* and timeout, has elapsed defined iff ok is true and kind is success.
C1_ElapsedIffSuccess ==
    (pc = "exec_done" /\ res.exc = "none") =>
        ((res.elapsed # None) <=> (res.ok /\ res.kind = "success"))

C1_Witness ==
    /\ pc = "exec_done"
    /\ ~inv.timedOut
    /\ inv.returncode = 139
    /\ inv.stderr # <<>>
    /\ res.exc = "none"
    /\ ~res.ok
    /\ res.elapsed = None

\* C3 as claimed: an invocation that ends within the timeout with a
\* non-zero exit status is stack_overflow when stderr holds a signature and
\* runtime_error otherwise, and timeout is produced only on a timeout.
C3_Original ==
    (pc = "exec_done" /\ res.exc = "none") =>
        /\ (~inv.timedOut /\ inv.returncode # 0) =>
               res.kind = IF HasSignature(inv.stderr)
                          THEN "stack_overflow" ELSE "rte"
        /\ res.kind = "tle" => inv.timedOut

\* C3 amended: an outcome returned for an invocation that ends within the
\* timeout with a non-zero exit status has kind timeout when the status is
\* 124, and otherwise stack_overflow when stderr holds a signature (in any
\* letter case) and runtime_error when it does not; timeout is produced
\* only on a timeout or on exit status 124.
C3_KindByExitAndStderr ==
    (pc = "exec_done" /\ res.exc = "none") =>
        /\ (~inv.timedOut /\ inv.returncode # 0) =>
               res.kind = IF inv.returncode = 124 THEN "tle"
                          ELSE IF HasSignature(inv.stderr)
                          THEN "stack_overflow" ELSE "rte"
        /\ res.kind = "tle" => (inv.timedOut \/ inv.returncode = 124)

C3_Witness ==
    /\ pc = "exec_done"
    /\ ~inv.timedOut
    /\ inv.returncode = 124
    /\ HasSignature(inv.stderr)
    /\ res.exc = "none"
    /\ res.kind = "tle"

AllSame(seq) == \A m, n \in 1..Len(seq) : seq[m] = seq[n]

AggregateShape(threshold_pct) ==
    pc = "agg_done" =>
        /\ (agg.status = "no_success") <=> (CopiesIn("success", statuses) = 0)
        /\ (agg.status = "no_success") =>
               /\ agg.median = None
               /\ agg.p10 = None
               /\ agg.p90 = None
               /\ agg.iqr = None
        /\ (agg.status # "no_success") =>
               /\ agg.status \in {"stable", "unstable"}
               /\ (agg.status = "stable") <=>
                      (100 * Val(agg.iqr) <= threshold_pct * Val(agg.median))
               /\ AllSame(samples) =>
                      /\ agg.median = Some(100 * samples[1])
                      /\ agg.iqr = Some(0)
                      /\ agg.status = "stable"

\* C9 as claimed: no_success iff there is no successful sample, and then
\* every statistic is null; otherwise stable iff iqr <= threshold * median
\* for the threshold of the language policy, and unstable in every other
\* case.
C9_Original == AggregateShape(policy_pct)

\* C9 amended: the same, for the fixed threshold 0.05 of _repeated, whatever
\* threshold the language policy carries.
C9_StableIffWithinFivePercent == AggregateShape(STABLE_PCT)

\* five successful samples whose iqr is exactly 5% of the median
C9_Witness ==
    /\ pc = "agg_done"
    /\ Len(samples) = N_REPEATS
    /\ Val(agg.iqr) > 0
    /\ 100 * Val(agg.iqr) = STABLE_PCT * Val(agg.median)
    /\ agg.status = "stable"
    /\ policy_pct # STABLE_PCT

-----------------------------------------------------------------------------
Exited == pc \in {"done", "raised"}

\* C2 as claimed: the workspace directory is removed on every exit path of
\* run_benchmark (no caller option keeps it: run_benchmark has none).
C2_Original == (Exited /\ calls.prepare > 0) => workdir = "removed"

\* C2 amended: once created, the workspace directory is never removed by
\* run_benchmark: it is still there on every exit path, normal return,
\* compile failure and any exception alike.
C2_WorkspaceRetained == calls.prepare > 0 => workdir = "present"

C2_Witness ==
    /\ pc = "raised"
    /\ exc = "RuntimeError: compile"
    /\ calls.prepare = 1
    /\ workdir = "present"

\* C4: both images are ensured before the workspace is created, the
\* workspace before the one compilation, the compilation before any target
\* sample, and all N_REPEATS + 1 target invocations have returned before
\* the first reference invocation.
C4_StrictOrder ==
    /\ calls.prepare > 0 => ensured = {PY_IMAGE, CPP_IMAGE}
    /\ calls.prepare <= 1
    /\ calls.compile > 0 => calls.prepare = 1
    /\ calls.compile <= 1
    /\ calls.py > 0 => calls.compile = 1
    /\ calls.py <= N_REPEATS + 1
    /\ calls.cpp > 0 => (calls.py = N_REPEATS + 1 /\ pc # "repeat_py")
    /\ calls.cpp <= N_REPEATS + 1
    /\ pc = "done" => calls.cpp = N_REPEATS + 1

C4_Witness ==
    /\ pc = "repeat_cpp"
    /\ calls.cpp = 3
    /\ calls.py = N_REPEATS + 1
    /\ calls.compile = 1

\* C5 as claimed: a run returns a full record or aborts before any sample
\* invocation, warm-up or measured, has been made.
C5_Original ==
    /\ pc = "raised" => (calls.py = 0 /\ calls.cpp = 0)
    /\ pc = "done" => result # None

\* the kinds of the outcomes of a log, with their numbers
KindsOf(lg) ==
    LET ks == {o.kind : o \in BagToSet(lg)}
    IN  [k \in ks |->
            BagCardinality([o \in {o \in BagToSet(lg) : o.kind = k} |-> lg[o]])]

\* the elapsed times of the success outcomes of a log, with their numbers
ElapsedOfSuccesses(lg) ==
    LET os == {o \in BagToSet(lg) : o.kind = "success"}
    IN  [e \in {Val(o.elapsed) : o \in os} |->
            lg[[kind |-> "success", elapsed |-> Some(e)]]]

BagOfSeq(seq) ==
    [e \in {seq[n] : n \in 1..Len(seq)} |->
        Cardinality({n \in 1..Len(seq) : seq[n] = e})]

\* aggregate a reports the measured outcomes lg, after n invocations
Reports(a, lg, n) ==
    /\ n = N_REPEATS + 1
    /\ BagCardinality(lg) = N_REPEATS
    /\ BagCardinality(a.counts) = N_REPEATS
    /\ a.counts = KindsOf(lg)
    /\ BagOfSeq(a.runs) = ElapsedOfSuccesses(lg)

\* C6: the histogram of a sampling phase counts every measured outcome once
\* and nothing else, so its counts sum to N_REPEATS while N_REPEATS + 1
\* invocations were made, and the sample list holds exactly the elapsed
\* times of the measured successes.
C6_MeasuredOnly ==
    /\ pc \in {"repeat_cpp", "finish"} => Reports(py, log.py, calls.py)
    /\ pc = "finish" => Reports(cp, log.cpp, calls.cpp)
    /\ pc = "done" =>
          /\ Reports(Val(result).python, log.py, calls.py)
          /\ Reports(Val(result).cpp, log.cpp, calls.cpp)

\* a phase with successes and failures of two kinds
C6_Witness ==
    /\ pc = "finish"
    /\ Len(py.runs) = 2
    /\ CopiesIn("tle", py.counts) = 1
    /\ CopiesIn("stack_overflow", py.counts) = 2
    /\ Len(cp.runs) = N_REPEATS

\* C7: a null reference median gives a factor of None, whatever the target
\* statistics and the cap, and a note saying that the factor could not be
\* computed.
C7_ReferenceCensored ==
    (pc = "done" /\ Val(result).cpp.median = None) =>
        /\ Val(result).adjustment_factor_python = None
        /\ Contains(Val(result).notes, NOTE_INCOMPLETE)

C7_Witness ==
    /\ pc = "done"
    /\ Val(result).cpp.median = None
    /\ Val(result).python.median # None
    /\ factor_cap # None

C10_Original ==
    pc = "done" =>
        /\ Val(result).adjustment_factor_python = None =>
               Val(result).notes # <<>>
        /\ Val(result).base_time_cpp = Val(result).cpp.median
        /\ BagCardinality(Val(result).python.counts) = N_REPEATS
        /\ BagCardinality(Val(result).cpp.counts) = N_REPEATS

====
